---- MODULE Spec2Model ----
(***************************************************************************)
(* Model of src/heuristics.py: derive_vintage_cohorts_from_statistics      *)
(* (lines 203-284) with its nested helpers setInitial_Flat,                *)
(* setInitial_Triangle, setHistorical and reduceVintages, and of           *)
(* aggregate_RES_by_yeardiff (lines 181-200).                              *)
(*                                                                         *)
(* Numbers.  The code computes with floats; the model computes with exact  *)
(* rationals.  Every value of the matrix of a partition with lifetime      *)
(* `life` is a multiple of 1/life^2 capacity units (the triangle policy    *)
(* divides by life twice), so a cell holds the integer numerator n of      *)
(* n/life^2.  One capacity unit is CapUnitInAtol times the absolute        *)
(* tolerance of np.isclose (1e-8), which makes the closeness filter of     *)
(* line 284 distinguish small values from zero.                            *)
(*                                                                         *)
(* A cell that was never assigned holds NaN, as in the DataFrame created   *)
(* without data at lines 266-267.  Sums skip NaN (pandas skipna, an empty  *)
(* sum being 0) and every comparison with NaN is false.                    *)
(*                                                                         *)
(* Steps.  One action per stage of the loop body of lines 260-281: the     *)
(* loop head, the initial policy, each iteration of the while loop of      *)
(* setHistorical (with the call of reduceVintages it makes), the           *)
(* extraction; then the return.  An exception ends the call in pc =        *)
(* "raised".  The rows of the statistics of a group are sorted by year.    *)
(***************************************************************************)
EXTENDS Integers, Sequences, FiniteSets, TLC

\* ------------------------------------------------------------------ bounds
MaxLife == 3
MaxSpan == 3
MaxCap == 2
NumParts == 2
FirstYear == 2013

\* --------------------------------------------------------------- constants
CapUnitInAtol == 2
DefaultBaseYear == 2015
NaN == 0 - 1000000

TriangleFuels == {"Solar", "Wind", "Bioenergy", "Geothermal"}
DefaultTargetFueltypes == {"Wind", "Solar", "Bioenergy"}
Fuels == {"Wind", "Hydro"}

VARIABLES
  parts,      \* the input statistics, one record per (Country, Technology) group
  lifeTable,  \* fueltype_to_life(): fuel type -> lifetime in years
  base_year,  \* the argument base_year (default 2015)
  pc,         \* position in the running call
  k,          \* number of groups the loop of line 260/261 has started
  mat,        \* the matrix of the current group: vintage row -> column -> value
  year,       \* loop variable of setHistorical
  dfe,        \* the accumulated records (line 259, 281)
  result,     \* the returned table, empty until the call returns
  err,        \* the exception that ended the call, NoError if none
  warnings,   \* groups for which logger.warn was called
  yd          \* the table aggregate_RES_by_yeardiff returns

vars == <<parts, lifeTable, base_year, pc, k, mat, year, dfe, result, err, warnings, yd>>

NoError == [type |-> "none", what |-> "none"]

\* ----------------------------------------------------------------- helpers
IsNaN(x) == x = NaN

\* the capacity a cell contributes to a skipna sum
Val(x) == IF IsNaN(x) THEN 0 ELSE x

Abs(x) == IF x < 0 THEN 0 - x ELSE x

Min2(a, b) == IF a < b THEN a ELSE b

MinOf(S) == CHOOSE x \in S : \A y \in S : x <= y

MaxOf(S) == CHOOSE x \in S : \A y \in S : y <= x

\* ------------------------------------------------------------------ inputs
\* the year sets of a group: FirstYear is observed, later years may be missing
YearSets(span) == {S \in SUBSET (FirstYear..(FirstYear + span)) : FirstYear \in S}

\* the statistics of one (Country, Technology) group: its fuel type and its
\* yearly capacities, in capacity units, rows sorted by year
Inputs(span, maxcap) ==
  UNION {[fuel : Fuels, years : {S}, cap : [S -> 0..maxcap]] : S \in YearSets(span)}

SeqsOf(S, n) == UNION {[1..m -> S] : m \in 1..n}

Tables(ps) ==
  UNION {[S -> 1..MaxLife] : S \in SUBSET {ps[i].fuel : i \in DOMAIN ps}}

BaseYears == (FirstYear - 1)..(FirstYear + MaxSpan)

\* ------------------------------------------------- the group being processed
Group == parts[k]

Fueltype == Group.fuel

y_start == MinOf(Group.years)

y_end == MaxOf(Group.years)

life == lifeTable[Fueltype]

Columns == (y_start - life + 1)..(y_end + life - 1)

\* Capacity of year y as a numerator over life^2
Capacity(y) == Group.cap[y] * life * life

\* ------------------------------------------------------------- the matrix
NewMat(ys, ye, l) ==
  [v \in (ys - l + 1)..(ye - 1) |-> [c \in (ys - l + 1)..(ye + l - 1) |-> NaN]]

\* mat.loc[row, c1:c2] = v : a label slice, both ends included, clipped to the
\* columns; a row label that is not in the index is appended (enlargement)
SetLoc(m, cols, row, c1, c2, v) ==
  LET old == IF row \in DOMAIN m THEN m[row] ELSE [c \in cols |-> NaN]
      new == [c \in cols |-> IF c1 <= c /\ c <= c2 THEN v ELSE old[c]]
  IN  [r \in (DOMAIN m) \cup {row} |-> IF r = row THEN new ELSE m[r]]

RECURSIVE SumOver(_, _, _)
SumOver(m, c, S) ==
  IF S = {} THEN 0
  ELSE LET r == MinOf(S) IN Val(m[r][c]) + SumOver(m, c, S \ {r})

\* mat.loc[:, c].sum()
ColSum(m, c) == SumOver(m, c, DOMAIN m)

\* ------------------------------------------------------ initial policies
height_flat(C, l) == (C * l * l) \div l

decr(C, l) == (2 * height_flat(C, l)) \div l

height_tri(C, l) == 2 * height_flat(C, l) - decr(C, l) \div 2

\* mutant: the series is zipped with the years without being reversed
TriangleValue_notReversed(C, l, ys, y) ==
  height_tri(C, l) - (y - (ys - l + 1)) * decr(C, l)

\* dic[y] of setInitial_Triangle: series reversed and zipped with the years
TriangleValue(C, l, ys, y) == height_tri(C, l) - (ys - y) * decr(C, l)

RECURSIVE InitialRows(_, _, _, _, _, _)
InitialRows(m, cols, l, y, ys, f) ==
  IF y > ys THEN m
  ELSE InitialRows(SetLoc(m, cols, y, y, Min2(y + l - 1, MaxOf(cols)),
                          IF f = "flat" THEN height_flat(Group.cap[ys], l)
                          ELSE TriangleValue(Group.cap[ys], l, ys, y)),
                   cols, l, y + 1, ys, f)

\* mutant: a retired vintage is zeroed from its own first year on
RECURSIVE reduceFrom_wholeRow(_, _, _, _, _, _)
reduceFrom_wholeRow(addition, m, cols, l, y_pres, yr) ==
  IF yr \notin DOMAIN m THEN m
  ELSE LET val_rem == m[yr][y_pres] IN
       IF ~IsNaN(val_rem) /\ val_rem > 0
       THEN IF Abs(addition) > val_rem
            THEN reduceFrom_wholeRow(addition + val_rem,
                                     SetLoc(m, cols, yr, yr, yr + l - 1, 0),
                                     cols, l, y_pres, yr + 1)
            ELSE SetLoc(m, cols, yr, y_pres, yr + l - 1, val_rem + addition)
       ELSE reduceFrom_wholeRow(addition, m, cols, l, y_pres, yr + 1)

\* mutant: the deficit is not lowered by what a retired vintage absorbed
RECURSIVE reduceFrom_noAccumulate(_, _, _, _, _, _)
reduceFrom_noAccumulate(addition, m, cols, l, y_pres, yr) ==
  IF yr \notin DOMAIN m THEN m
  ELSE LET val_rem == m[yr][y_pres] IN
       IF ~IsNaN(val_rem) /\ val_rem > 0
       THEN IF Abs(addition) > val_rem
            THEN reduceFrom_noAccumulate(addition,
                                         SetLoc(m, cols, yr, y_pres, yr + l - 1, 0),
                                         cols, l, y_pres, yr + 1)
            ELSE SetLoc(m, cols, yr, y_pres, yr + l - 1, val_rem + addition)
       ELSE reduceFrom_noAccumulate(addition, m, cols, l, y_pres, yr + 1)

\* mutant: the pivot vintage gains the deficit instead of losing it
RECURSIVE reduceFrom_signBug(_, _, _, _, _, _)
reduceFrom_signBug(addition, m, cols, l, y_pres, yr) ==
  IF yr \notin DOMAIN m THEN m
  ELSE LET val_rem == m[yr][y_pres] IN
       IF ~IsNaN(val_rem) /\ val_rem > 0
       THEN IF Abs(addition) > val_rem
            THEN reduceFrom_signBug(addition + val_rem,
                                    SetLoc(m, cols, yr, y_pres, yr + l - 1, 0),
                                    cols, l, y_pres, yr + 1)
            ELSE SetLoc(m, cols, yr, y_pres, yr + l - 1, val_rem - addition)
       ELSE reduceFrom_signBug(addition, m, cols, l, y_pres, yr + 1)

\* ---------------------------------------------------------- reduceVintages
\* the rows are visited in index order, which is ascending: the index is a
\* range and the only appended row is the last year
RECURSIVE reduceFrom(_, _, _, _, _, _)
reduceFrom(addition, m, cols, l, y_pres, yr) ==
  IF yr \notin DOMAIN m THEN m
  ELSE LET val_rem == m[yr][y_pres] IN
       IF ~IsNaN(val_rem) /\ val_rem > 0
       THEN IF Abs(addition) > val_rem
            THEN reduceFrom(addition + val_rem,
                            SetLoc(m, cols, yr, y_pres, yr + l - 1, 0),
                            cols, l, y_pres, yr + 1)
            ELSE SetLoc(m, cols, yr, y_pres, yr + l - 1, val_rem + addition)
       ELSE reduceFrom(addition, m, cols, l, y_pres, yr + 1)

reduceVintages(addition, m, cols, l, y_pres) ==
  IF DOMAIN m = {} THEN m
  ELSE reduceFrom(addition, m, cols, l, y_pres, MinOf(DOMAIN m))

\* mutant: a cohort carries the capacity its vintage was built with
RECURSIVE Cohorts_builtValue(_, _, _, _)
Cohorts_builtValue(m, g, b, S) ==
  IF S = {} THEN << >>
  ELSE LET r == MinOf(S)
           rest == Cohorts_builtValue(m, g, b, S \ {r})
       IN  IF ~IsNaN(m[r][b]) /\ m[r][b] > 0
           THEN <<[group |-> g, YearCommissioned |-> r, Capacity |-> m[r][r]]>> \o rest
           ELSE rest

\* ------------------------------------------------------------- extraction
\* add[add.Capacity > 0.0] : the rows of column base_year, in index order
RECURSIVE Cohorts(_, _, _, _)
Cohorts(m, g, b, S) ==
  IF S = {} THEN << >>
  ELSE LET r == MinOf(S)
           rest == Cohorts(m, g, b, S \ {r})
       IN  IF ~IsNaN(m[r][b]) /\ m[r][b] > 0
           THEN <<[group |-> g, YearCommissioned |-> r, Capacity |-> m[r][b]]>> \o rest
           ELSE rest

\* np.isclose(Capacity, 0): |Capacity| <= atol, for a numerator n over l^2
\* of capacity units of CapUnitInAtol * atol
IsClose(n, l) == Abs(n) * CapUnitInAtol <= l * l

RecordIsClose(rec) == IsClose(rec.Capacity, lifeTable[parts[rec.group].fuel])

\* the failure of the lookup fueltype_to_life()[fuel] for a fuel type that has
\* no entry
LookupFailure(fuel) == [type |-> "ConfigurationError", what |-> fuel]

\* --------------------------------------------------------------- actions
\* a call with the default base_year on the statistics of one group
Init ==
  /\ parts \in SeqsOf(Inputs(MaxSpan, MaxCap), 1)
  /\ lifeTable \in Tables(parts)
  /\ base_year = DefaultBaseYear
  /\ pc = "idle"
  /\ k = 0
  /\ mat = << >>
  /\ year = FirstYear
  /\ dfe = << >>
  /\ result = << >>
  /\ err = NoError
  /\ warnings = {}
  /\ yd = << >>

\* line 259
Call ==
  /\ pc = "idle"
  /\ pc' = "loop"
  /\ dfe' = << >>
  /\ UNCHANGED <<parts, lifeTable, base_year, k, mat, year, result, err, warnings, yd>>

\* mutant: a group whose fuel type has no lifetime is skipped
StartPartition_skip ==
  /\ pc = "loop"
  /\ k < Len(parts)
  /\ k' = k + 1
  /\ LET p == parts[k + 1] IN
       IF p.fuel \notin DOMAIN lifeTable
       THEN /\ err' = err
            /\ pc' = "loop"
            /\ mat' = mat
       ELSE /\ mat' = NewMat(MinOf(p.years), MaxOf(p.years), lifeTable[p.fuel])
            /\ pc' = "initial"
            /\ err' = err
  /\ UNCHANGED <<parts, lifeTable, base_year, year, dfe, result, warnings, yd>>

\* lines 260-267: the next group, its lifetime, its empty matrix
StartPartition ==
  /\ pc = "loop"
  /\ k < Len(parts)
  /\ k' = k + 1
  /\ LET p == parts[k + 1] IN
       IF p.fuel \notin DOMAIN lifeTable
       THEN /\ err' = LookupFailure(p.fuel)
            /\ pc' = "raised"
            /\ mat' = mat
       ELSE /\ mat' = NewMat(MinOf(p.years), MaxOf(p.years), lifeTable[p.fuel])
            /\ pc' = "initial"
            /\ err' = err
  /\ UNCHANGED <<parts, lifeTable, base_year, year, dfe, result, warnings, yd>>

\* what follows the initial policy: mat.index[0] of an empty index raises,
\* and line 272 enters setHistorical, whose first year is df.index[1]
AfterInitial(f) ==
  IF DOMAIN mat = {}
  THEN /\ err' = [type |-> "IndexError", what |-> "mat.index[0]"]
       /\ pc' = "raised"
       /\ UNCHANGED <<mat, year>>
  ELSE /\ mat' = InitialRows(mat, Columns, life, MinOf(DOMAIN mat), y_start, f)
       /\ err' = err
       /\ IF y_end > y_start
          THEN /\ pc' = "historical"
               /\ year' = MinOf(Group.years \ {y_start})
          ELSE /\ pc' = "extract"
               /\ year' = year

\* lines 209-215
setInitial_Flat ==
  /\ pc = "initial"
  /\ Fueltype \notin TriangleFuels
  /\ AfterInitial("flat")
  /\ UNCHANGED <<parts, lifeTable, base_year, k, dfe, result, warnings, yd>>

\* lines 217-228
setInitial_Triangle ==
  /\ pc = "initial"
  /\ Fueltype \in TriangleFuels
  /\ AfterInitial("triangle")
  /\ UNCHANGED <<parts, lifeTable, base_year, k, dfe, result, warnings, yd>>

\* mutant: a new vintage lives one year too long
HistoricalStep_longSpan(m, y) ==
  IF y \in Group.years
  THEN LET addition == Capacity(y) - ColSum(m, y) IN
       IF addition >= 0
       THEN SetLoc(m, Columns, y, y, y + life, addition)
       ELSE reduceVintages(addition, SetLoc(m, Columns, y, y, y + life - 1, 0),
                           Columns, life, y)
  ELSE SetLoc(m, Columns, y, y, y + life - 1, 0)

\* mutant: the addition is recorded as the new vintage whatever its sign
HistoricalStep_noBranch(m, y) ==
  IF y \in Group.years
  THEN SetLoc(m, Columns, y, y, y + life - 1, Capacity(y) - ColSum(m, y))
  ELSE SetLoc(m, Columns, y, y, y + life - 1, 0)

\* mutant: a year without statistic counts as an observed capacity of zero
HistoricalStep_gapAsZero(m, y) ==
  LET addition == (IF y \in Group.years THEN Capacity(y) ELSE 0) - ColSum(m, y) IN
    IF addition >= 0
    THEN SetLoc(m, Columns, y, y, y + life - 1, addition)
    ELSE reduceVintages(addition, SetLoc(m, Columns, y, y, y + life - 1, 0),
                        Columns, life, y)

\* the matrix after one iteration of the loop of setHistorical at year y
HistoricalStep(m, y) ==
  IF y \in Group.years
  THEN LET addition == Capacity(y) - ColSum(m, y) IN
       IF addition >= 0
       THEN SetLoc(m, Columns, y, y, y + life - 1, addition)
       ELSE reduceVintages(addition, SetLoc(m, Columns, y, y, y + life - 1, 0),
                           Columns, life, y)
  ELSE SetLoc(m, Columns, y, y, y + life - 1, 0)

\* lines 232-242: one iteration of the while loop
setHistorical ==
  /\ pc = "historical"
  /\ mat' = HistoricalStep(mat, year)
  /\ year' = year + 1
  /\ pc' = IF year + 1 <= y_end THEN "historical" ELSE "extract"
  /\ UNCHANGED <<parts, lifeTable, base_year, k, dfe, result, err, warnings, yd>>

\* mutant: a group whose matrix has no column base_year contributes nothing
Extract_skip ==
  /\ pc = "extract"
  /\ IF base_year \notin Columns
     THEN /\ err' = err
          /\ pc' = "loop"
          /\ dfe' = dfe
     ELSE /\ dfe' = dfe \o Cohorts(mat, k, base_year, DOMAIN mat)
          /\ pc' = "loop"
          /\ err' = err
  /\ UNCHANGED <<parts, lifeTable, base_year, k, mat, year, result, warnings, yd>>

\* lines 274-281
Extract ==
  /\ pc = "extract"
  /\ IF base_year \notin Columns
     THEN /\ err' = [type |-> "KeyError", what |-> "base_year"]
          /\ pc' = "raised"
          /\ dfe' = dfe
     ELSE /\ dfe' = dfe \o Cohorts(mat, k, base_year, DOMAIN mat)
          /\ pc' = "loop"
          /\ err' = err
  /\ UNCHANGED <<parts, lifeTable, base_year, k, mat, year, result, warnings, yd>>

\* lines 282-284
Return ==
  /\ pc = "loop"
  /\ k = Len(parts)
  /\ result' = SelectSeq(dfe, LAMBDA rec : ~RecordIsClose(rec))
  /\ pc' = "returned"
  /\ UNCHANGED <<parts, lifeTable, base_year, k, mat, year, dfe, err, warnings, yd>>

\* Capacity.diff().fillna(Capacity.iloc[0]) of one group, in capacity units
Addition(p, y) ==
  IF y = MinOf(p.years) THEN p.cap[y]
  ELSE p.cap[y] - p.cap[MaxOf({z \in p.years : z < y})]

\* (stats.Year.diff().fillna(1) != 1).any()
NotContinuous(p) ==
  \E y \in p.years : y # MinOf(p.years) /\ (y - 1) \notin p.years

\* lines 181-200: aggregate_RES_by_yeardiff with the default target_fueltypes,
\* called on the same statistics
aggregate_RES_by_yeardiff ==
  /\ pc = "idle"
  /\ LET targets == {g \in DOMAIN parts : parts[g].fuel \in DefaultTargetFueltypes} IN
       /\ warnings' = {g \in targets : NotContinuous(parts[g])}
       /\ yd' = [g \in targets |-> [y \in parts[g].years |-> Addition(parts[g], y)]]
  /\ pc' = "yd_returned"
  /\ UNCHANGED <<parts, lifeTable, base_year, k, mat, year, dfe, result, err>>

Next ==
  \/ Call
  \/ aggregate_RES_by_yeardiff
  \/ StartPartition
  \/ setInitial_Flat
  \/ setInitial_Triangle
  \/ setHistorical
  \/ Extract
  \/ Return

\* one group, every trajectory within the bounds, the default base_year
Spec == Init /\ [][Next]_vars

\* up to NumParts groups, each with one or two observed years and capacities
\* that are 0 or MaxCap, any base_year of BaseYears
GroupSamples ==
  {p \in Inputs(1, MaxCap) :
     /\ p.cap[FirstYear] = MaxCap
     /\ \A y \in p.years : p.cap[y] \in {0, MaxCap}}

InitGroups ==
  /\ parts \in SeqsOf(GroupSamples, NumParts)
  /\ lifeTable \in Tables(parts)
  /\ base_year \in BaseYears
  /\ pc = "idle"
  /\ k = 0
  /\ mat = << >>
  /\ year = FirstYear
  /\ dfe = << >>
  /\ result = << >>
  /\ err = NoError
  /\ warnings = {}
  /\ yd = << >>

SpecGroups == InitGroups /\ [][Next]_vars

\* ------------------------------------------------------------------ claims
\* the matrix of group k has passed the Builder
Built == pc \in {"historical", "extract"}
           \/ (pc \in {"loop", "returned"} /\ k >= 1)
           \/ (pc = "raised" /\ err.type = "KeyError")

\* the Allocator has finished the matrix of group k
Allocated == Built /\ pc # "historical"

\* the Allocator has processed year y of group k
Processed(y) == y > y_start /\ ((pc = "historical" /\ y < year) \/ Allocated)

\* row v lost capacity at year y before its scheduled end: forced retirement
ForcedAt(v, y) ==
  /\ v \in DOMAIN mat /\ v < y /\ y <= v + life - 1
  /\ ~IsNaN(mat[v][y]) /\ ~IsNaN(mat[v][y - 1])
  /\ mat[v][y] < mat[v][y - 1]

\* C1: once the Allocator has processed an observed year Y > y_start, the sum
\* of column Y over all vintage rows equals Capacity(Y), whether the step added
\* a new vintage or reduced older ones, and it stays equal in every later state
\* of the group.
C1_ColumnSumIsCapacity ==
  Built => \A y \in Group.years : Processed(y) => ColSum(mat, y) = Capacity(y)

\* C1 witness: the Allocator is done, an observed year before the last one was
\* met by forced retirement, and its column still sums to its capacity.
C1_Witness ==
  /\ pc = "extract"
  /\ \E y \in Group.years :
       /\ y_start < y /\ y < y_end /\ Group.cap[y] > 0
       /\ \E v \in DOMAIN mat : ForcedAt(v, y)
       /\ ColSum(mat, y) = Capacity(y)

\* the deficit of the step the Allocator is about to take at `year`
Deficit == ColSum(mat, year) - Capacity(year)

\* the matrix reduceVintages receives: the row of `year` already zero
PreReduce == SetLoc(mat, Columns, year, year, year + life - 1, 0)

\* C2: a call of reduceVintages at year Y with deficit D consumes the vintages
\* oldest first: some pivot p holds capacity at Y, every older vintage holds 0
\* from Y to its scheduled end, p holds from Y on what it held at Y less the
\* part of D the older vintages did not absorb, every newer vintage is
\* unchanged, and column Y has dropped by exactly D.
C2_OldestFirst ==
  [][(pc = "historical" /\ year \in Group.years /\ Deficit > 0) =>
       LET pre == PreReduce
           D == Deficit
       IN  /\ D <= ColSum(pre, year)
           /\ \E p \in DOMAIN pre :
                LET older == {v \in DOMAIN pre : v < p}
                    absorbed == SumOver(pre, year, older)
                IN  /\ Val(pre[p][year]) > 0
                    /\ \A v \in older : \A c \in year..(v + life - 1) :
                         Val(mat'[v][c]) = 0
                    /\ \A c \in year..(p + life - 1) :
                         mat'[p][c] = pre[p][year] - (D - absorbed)
                    /\ \A v \in DOMAIN pre : v > p => mat'[v] = pre[v]
           /\ ColSum(mat', year) = ColSum(pre, year) - D]_vars

\* C2 witness: at a processed year Y an older vintage was retired completely
\* and a newer one only in part.
C2_Witness ==
  /\ Built
  /\ \E y \in Group.years : \E v1, v2 \in DOMAIN mat :
       /\ Processed(y) /\ v1 < v2
       /\ ForcedAt(v1, y) /\ mat[v1][y] = 0
       /\ ForcedAt(v2, y) /\ mat[v2][y] > 0

\* the observation years in which row v holds a non-zero value
NonZeroYears(v) == {c \in Columns : ~IsNaN(mat[v][c]) /\ mat[v][c] # 0}

\* C3: in every state of the Builder, Allocator and Reducer steps the non-zero
\* years of a vintage row form one interval of at most life years that starts
\* no earlier than the vintage year and ends no later than vintage + life - 1.
C3_ContiguousSpan ==
  (pc = "initial" \/ Built) =>
    \A v \in DOMAIN mat :
      LET nz == NonZeroYears(v) IN
        nz # {} =>
          /\ nz = MinOf(nz)..MaxOf(nz)
          /\ Cardinality(nz) <= life
          /\ MinOf(nz) >= v
          /\ MaxOf(nz) <= v + life - 1

\* C3 witness: a row that forced retirement cut short: non-zero over fewer
\* than life years, zero inside its scheduled span.
C3_Witness ==
  /\ Built
  /\ \E v \in DOMAIN mat :
       /\ NonZeroYears(v) # {}
       /\ Cardinality(NonZeroYears(v)) < life
       /\ \E c \in v..(v + life - 1) : mat[v][c] = 0

\* C4: with non-negative capacities no assigned cell is ever negative.
C4_NonNegative ==
  \A v \in DOMAIN mat : \A c \in DOMAIN mat[v] : IsNaN(mat[v][c]) \/ mat[v][c] >= 0

\* C4 witness: a partial reduction happened: a row holds, at a processed
\* year, a positive value smaller than the one it held the year before.
C4_Witness ==
  /\ Built
  /\ \E y \in Group.years : \E v \in DOMAIN mat :
       Processed(y) /\ ForcedAt(v, y) /\ mat[v][y] > 0

\* C5: in an Allocator step (with its Reducer) an assigned cell stays assigned
\* and never grows, a zero cell stays zero, and a cell past the expiry of its
\* vintage holds nothing before and after.
C5_NeverIncreases ==
  [][pc = "historical" =>
       /\ \A v \in DOMAIN mat : \A c \in Columns :
            /\ ~IsNaN(mat[v][c]) => (~IsNaN(mat'[v][c]) /\ mat'[v][c] <= mat[v][c])
            /\ mat[v][c] = 0 => mat'[v][c] = 0
       /\ \A v \in DOMAIN mat' : \A c \in Columns :
            c > v + life - 1 => Val(mat'[v][c]) = 0]_vars

\* C5 witness: a vintage that was built with capacity holds zero inside its
\* scheduled span at a year before the last one, so later steps ran over the
\* retired cell.
C5_Witness ==
  /\ pc = "extract"
  /\ \E v \in DOMAIN mat : \E c \in (v + 1)..(v + life - 1) :
       c < y_end /\ mat[v][v] > 0 /\ mat[v][c] = 0

\* the state the Builder leaves
AfterBuilder ==
  \/ pc = "historical" /\ year = MinOf(Group.years \ {y_start})
  \/ pc = "extract" /\ y_end = y_start

InitialVintages == (y_start - life + 1)..y_start

RECURSIVE SumCapacity(_)
SumCapacity(recs) ==
  IF recs = << >> THEN 0 ELSE Head(recs).Capacity + SumCapacity(Tail(recs))

\* the records of group k in the returned table
Emitted == SelectSeq(result, LAMBDA rec : rec.group = k)

EmittedYears == {Emitted[i].YearCommissioned : i \in DOMAIN Emitted}

\* the vintages of group k with a non-zero value at base_year
NonZeroVintages ==
  {v \in DOMAIN mat : ~IsNaN(mat[v][base_year]) /\ mat[v][base_year] # 0}

\* those of them np.isclose takes for zero
DroppedVintages == {v \in NonZeroVintages : IsClose(mat[v][base_year], life)}

\* C7 as stated: the returned table holds exactly one record for each vintage
\* with a non-zero value at base_year, with that value as Capacity, the
\* capacities sum to the column sum at base_year, and to Capacity(base_year)
\* when base_year is an observed year.
C7_Original ==
  pc = "returned" =>
    /\ EmittedYears = NonZeroVintages
    /\ Len(Emitted) = Cardinality(NonZeroVintages)
    /\ \A i \in DOMAIN Emitted :
         /\ Emitted[i].Capacity = mat[Emitted[i].YearCommissioned][base_year]
         /\ Emitted[i].Capacity > 0
    /\ SumCapacity(Emitted) = ColSum(mat, base_year)
    /\ base_year \in Group.years => SumCapacity(Emitted) = Capacity(base_year)

\* C7 amended: the returned table holds exactly one record for each vintage
\* whose value at base_year is non-zero and not within the tolerance of
\* np.isclose; the capacities sum to the column sum at base_year less the
\* dropped values, and together with these to Capacity(base_year) when
\* base_year is an observed year.
C7_ExtractionUpToTolerance ==
  pc = "returned" =>
    /\ EmittedYears = NonZeroVintages \ DroppedVintages
    /\ Len(Emitted) = Cardinality(NonZeroVintages \ DroppedVintages)
    /\ \A i \in DOMAIN Emitted :
         /\ Emitted[i].Capacity = mat[Emitted[i].YearCommissioned][base_year]
         /\ Emitted[i].Capacity > 0
    /\ SumCapacity(Emitted) + SumOver(mat, base_year, DroppedVintages)
         = ColSum(mat, base_year)
    /\ base_year \in Group.years =>
         SumCapacity(Emitted) + SumOver(mat, base_year, DroppedVintages)
           = Capacity(base_year)

\* C7 witness: the call returned records of an observed base year after the
\* Allocator ran, one vintage was dropped for closeness and one was kept with a
\* value below the one it was built with.
C7_Witness ==
  /\ pc = "returned"
  /\ base_year \in Group.years /\ base_year > y_start
  /\ DroppedVintages # {}
  /\ \E i \in DOMAIN Emitted :
       Emitted[i].Capacity < mat[Emitted[i].YearCommissioned][Emitted[i].YearCommissioned]

\* the Allocator is about to visit a year without statistic
GapStep == pc = "historical" /\ year \notin Group.years

GapStepEffect ==
  /\ \A c \in Columns : mat'[year][c] = IF c \in year..(year + life - 1) THEN 0 ELSE NaN
  /\ \A v \in DOMAIN mat : v # year => mat'[v] = mat[v]
  /\ pc' \in {"historical", "extract"}
  /\ err' = NoError

GapYears == {y \in y_start..y_end : y \notin Group.years}

GroupsIn(recs) == {recs[i].group : i \in DOMAIN recs}

\* C9: when the lifetime table has no entry for the fuel type of a group, the
\* call ends with a ConfigurationError naming that fuel type: the group gets no
\* matrix and no record, and the call returns nothing.
C9_MissingLifetime ==
  /\ pc \in {"initial", "historical", "extract"} => Fueltype \in DOMAIN lifeTable
  /\ \A g \in GroupsIn(dfe) : parts[g].fuel \in DOMAIN lifeTable
  /\ pc = "returned" => \A g \in DOMAIN parts : parts[g].fuel \in DOMAIN lifeTable
  /\ (k >= 1 /\ Fueltype \notin DOMAIN lifeTable) =>
       /\ pc = "raised"
       /\ err = [type |-> "ConfigurationError", what |-> Fueltype]
       /\ result = << >>
       /\ k \notin GroupsIn(dfe)
       /\ k = 1 => mat = << >>

\* C9 witness: the second group has a fuel type without entry, after a first
\* group that put records into the table.
C9_Witness ==
  /\ pc = "raised"
  /\ k = 2
  /\ Fueltype \notin DOMAIN lifeTable
  /\ 1 \in GroupsIn(dfe)

\* the observation years of the matrix of group g
RangeOf(g) ==
  LET l == lifeTable[parts[g].fuel] IN
    (MinOf(parts[g].years) - l + 1)..(MaxOf(parts[g].years) + l - 1)

\* C10: a group is extracted only if base_year is a column of its matrix; if
\* it is not, a KeyError ends the call, which returns nothing, not even the
\* records of the groups extracted before.
C10_BaseYearOutOfRange ==
  /\ \A g \in GroupsIn(dfe) : base_year \in RangeOf(g)
  /\ (pc = "loop" /\ k >= 1) => base_year \in RangeOf(k)
  /\ pc = "returned" => \A g \in DOMAIN parts : base_year \in RangeOf(g)
  /\ (pc = "raised" /\ err.type = "KeyError") =>
       /\ base_year \notin RangeOf(k)
       /\ result = << >>
       /\ k \notin GroupsIn(dfe)
  /\ (Allocated /\ base_year \notin RangeOf(k)) => pc \in {"extract", "raised"}

\* C10 witness: the second group lacks the column base_year after a first
\* group, whose matrix has it, put records into the table.
C10_Witness ==
  /\ pc = "raised"
  /\ err.type = "KeyError"
  /\ k = 2
  /\ 1 \in GroupsIn(dfe)
  /\ base_year \in RangeOf(1)

====
